---- MODULE Spec2Model ----
(***************************************************************************)
(* Detection engine of the video proctoring system.                        *)
(*                                                                         *)
(* DetectionSystem (src/lib/detection.ts) turns the per-tick answers of    *)
(* the face detector and of the object detector into violation events; the *)
(* event callback of the room page                                         *)
(* (src/app/(interview)/room/[roomId]/page.tsx) appends each event to the  *)
(* log and deducts from the integrity score.                               *)
(*                                                                         *)
(* One tick is one call of runDetection: the part of detectFaces and the   *)
(* part of detectObjects that run, each without interruption, once their   *)
(* detector has answered.  Times are milliseconds, confidences are         *)
(* hundredths (0.8 is 80).  Event timestamps are not read by any code      *)
(* modelled here and are left out of the event records.                    *)
(*                                                                         *)
(* The specifications share the state:                                     *)
(*   Spec          calls of runDetection on any frame, 2000 ms or 3000 ms  *)
(*                 apart;                                                  *)
(*   SpecPeriodic  calls exactly 2000 ms apart on frames without objects;  *)
(*   SpecObjects   calls on frames with several objects;                   *)
(*   SpecCallback  the event callback alone, for any sequence of events    *)
(*                 the detection system can emit;                          *)
(*   SpecSave      recorded sessions submitted to saveData                 *)
(*                 (src/lib/actions/interview-actions.ts);                 *)
(*   SpecReport    any score submitted to saveData and read back by        *)
(*                 generatePDF;                                            *)
(*   SpecPage      the room page: camera, detection loop, start and end    *)
(*                 of the interview, with the timers it sets;              *)
(*   SpecRoom      the room page while the detection system delivers       *)
(*                 events to its callback;                                 *)
(*   SpecSessions  detection calls over several mounts of the room page;   *)
(*   SpecStorage   calls of saveData step by step: update, delete, insert, *)
(*                 with failures and with calls that overlap.              *)
(* The first four describe the detection system as driven by its caller.   *)
(* SpecPage describes the caller: a handler or timer callback of the page  *)
(* reads the page state of the render that defined it.                     *)
(***************************************************************************)
EXTENDS Integers, Sequences, FiniteSets, TLC

VARIABLES
    now,                    \* Date.now()
    isInitialized,          \* DetectionSystem.isInitialized
    lastFaceDetectedTime,   \* DetectionSystem.lastFaceDetectedTime
    lastLookingAwayTime,    \* DetectionSystem.lastLookingAwayTime
    isLookingAway,          \* DetectionSystem.isLookingAway
    hasNoFace,              \* DetectionSystem.hasNoFace
    integrityScore,         \* page state integrityScore
    events,                 \* page state events
    tickNo,                 \* history: number of runDetection calls so far
    last,                   \* history: what the latest call observed (objOk: the object detector answered) and emitted
    run,                    \* history: the current run of equal consecutive face observations
    multiTicks,             \* history: number of calls that observed more than one face
    badStart,               \* history: time of the bad tick that directly followed the latest good tick
    absenceStart,           \* history: time of the first zero-face tick since the latest one-face tick
    interview,              \* database: the interview row of the room
    storedEvents,           \* database: the detection event rows of that interview
    lastCall,               \* history: the latest server action call, its input and result
    pending,                \* the saveData calls in progress, each with its input and the step it is at
    mounted,                \* the room page is mounted (videoRef.current is set)
    stream,                 \* page state stream, as "is set"
    recording,              \* page state recording
    detectionInitialized,   \* page state detectionInitialized
    detectionIntervalRef,   \* detectionIntervalRef.current: the id of a timer, or None
    intervals,              \* the running setInterval timers, each with what its callback closes over
    startTimeouts,          \* the pending 5 s timeouts of startInterview, each with what it closes over
    saveTimeouts,           \* the pending 2 s timeouts of endInterview, each with what it closes over
    loop                    \* history: timers created, callbacks run, runDetection calls, endInterview runs, mounts

serverVars == <<interview, storedEvents, lastCall, pending>>

pageVars == <<mounted, stream, recording, detectionInitialized, detectionIntervalRef,
              intervals, startTimeouts, saveTimeouts, loop>>

\* The detection system's timing state, the page's score and log, and their history.
sessionVars == <<now, lastFaceDetectedTime, lastLookingAwayTime, isLookingAway,
                 hasNoFace, integrityScore, events, tickNo, last, run, multiTicks,
                 badStart, absenceStart>>

clientVars == <<isInitialized, sessionVars, pageVars>>

vars == <<clientVars, serverVars>>

----------------------------------------------------------------------------
(* Bounds of the model *)

MaxTicks == 3           \* runDetection calls explored with jittered spacing
MaxEvents == 2          \* length of the event log explored with jittered spacing
MaxPeriodicTicks == 13  \* runDetection calls explored at the exact timer spacing
MaxPeriodicEvents == 2  \* length of the event log explored at the exact timer spacing
MaxLog == 6             \* length of the event log explored for the event callback alone
MaxObjectTicks == 3     \* runDetection calls explored on the object frames
MaxObjectEvents == 5    \* length of the event log explored on the object frames
MaxSavedLog == 2        \* length of the event log explored for saved sessions
MaxStarts == 2          \* clicks on Start Interview explored on the room page
MaxFires == 3           \* interval callbacks explored on the room page
MaxMounts == 2          \* mounts of the room page explored in one browser session
MaxSessionTicks == 4    \* runDetection calls explored over the mounts
MaxCalls == 2           \* saveData calls in progress at the same time
ScoreMargin == 3        \* how far outside [0,100] submitted scores are explored

(* Program constants *)

FOCUS_LOST_THRESHOLD == 5000
NO_FACE_THRESHOLD == 10000
FACE_CENTER_THRESHOLD_PCT == 30
DETECTION_INTERVAL == 2000
VIDEO_WIDTH == 1280
INITIAL_SCORE == 100
FOCUS_LOST_CONFIDENCE == 80
NO_FACE_CONFIDENCE == 90
MULTIPLE_FACES_CONFIDENCE == 90

None == 0 - 1   \* "not set" for the history times

----------------------------------------------------------------------------
(* Event callback of the room page *)

Max(a, b) == IF a >= b THEN a ELSE b

Abs(x) == IF x < 0 THEN -x ELSE x

DetectionEvent(type, confidence) == [type |-> type, confidence |-> confidence]

\* Deduction with the PHONE_DETECTED case falling into the 15-point cases.
DeductionPhoneAsBook(type) ==
    CASE type = "FOCUS_LOST"      -> 5
      [] type = "NO_FACE"         -> 10
      [] type \in {"MULTIPLE_FACES", "PHONE_DETECTED", "NOTES_DETECTED", "BOOK_DETECTED"} -> 15
      [] OTHER                    -> 0

\* switch (event.type) of the event callback
Deduction(type) ==
    CASE type = "FOCUS_LOST"      -> 5
      [] type = "NO_FACE"         -> 10
      [] type = "MULTIPLE_FACES"  -> 15
      [] type = "PHONE_DETECTED"  -> 20
      [] type = "NOTES_DETECTED"  -> 15
      [] type = "BOOK_DETECTED"   -> 15
      [] OTHER                    -> 0

\* DeductScore without Math.max.
DeductScoreUnclamped(prev, deduction) == prev - deduction

\* setIntegrityScore(prev => Math.max(0, prev - deduction))
DeductScore(prev, deduction) == Max(0, prev - deduction)

Page == [events |-> events, integrityScore |-> integrityScore]

\* EventCallback that appends the event and leaves the score to a later update.
EventCallbackLogOnly(page, event) ==
    [events         |-> Append(page.events, event),
     integrityScore |-> page.integrityScore]

\* The callback passed to setEventCallback: setEvents(prev => [...prev, event]) and
\* setIntegrityScore(prev => Math.max(0, prev - deduction)), both in one run of
\* the callback, so that every render sees the two updates together.
EventCallback(page, event) ==
    [events         |-> Append(page.events, event),
     integrityScore |-> DeductScore(page.integrityScore, Deduction(event.type))]

\* triggerEvent for each event of one call, in delivery order.
RECURSIVE TriggerEvents(_, _)
TriggerEvents(page, evs) ==
    IF evs = <<>> THEN page
    ELSE TriggerEvents(EventCallback(page, Head(evs)), Tail(evs))

----------------------------------------------------------------------------
(* DetectionSystem.detectFaces *)

\* A face is its bounding box; the detector answers with a list of faces or throws.
Box(originX, width) == [originX |-> originX, width |-> width]

CenteredFace == Box(540, 200)   \* centre 640: deviation 0
OffCenterFace == Box(0, 200)    \* centre 100: deviation 540 / 1280
EdgeFace == Box(924, 200)       \* centre 1024: deviation 384 / 1280, exactly 0.3

FaceLists == { <<>>, <<CenteredFace>>, <<OffCenterFace>>, <<EdgeFace>>,
               <<CenteredFace, OffCenterFace>> }

FaceResults == [ok : {TRUE}, faces : FaceLists] \cup {[ok |-> FALSE, faces |-> <<>>]}

\* deviationRatio = |originX + width/2 - videoWidth/2| / videoWidth < 0.3,
\* with both sides multiplied by 2 * videoWidth * 100
IsFaceLookingAtCenter(face, videoWidth) ==
    Abs(2 * face.originX + face.width - videoWidth) * 100
        < FACE_CENTER_THRESHOLD_PCT * 2 * videoWidth

\* NoFaceTooLong with >= for >.
NoFaceTooLongInclusive(n, lastTime) == n - lastTime >= NO_FACE_THRESHOLD

\* NoFaceTooLong compared against the other threshold.
NoFaceTooLongFocusThreshold(n, lastTime) == n - lastTime > FOCUS_LOST_THRESHOLD

\* now - this.lastFaceDetectedTime > this.NO_FACE_THRESHOLD
NoFaceTooLong(n, lastTime) == n - lastTime > NO_FACE_THRESHOLD

\* LookingAwayTooLong with >= for >.
LookingAwayTooLongInclusive(n, lastTime) == n - lastTime >= FOCUS_LOST_THRESHOLD

\* LookingAwayTooLong compared against the other threshold.
LookingAwayTooLongNoFaceThreshold(n, lastTime) == n - lastTime > NO_FACE_THRESHOLD

\* now - this.lastLookingAwayTime > this.FOCUS_LOST_THRESHOLD
LookingAwayTooLong(n, lastTime) == n - lastTime > FOCUS_LOST_THRESHOLD

Tracker == [lastFaceDetectedTime |-> lastFaceDetectedTime,
            lastLookingAwayTime  |-> lastLookingAwayTime,
            isLookingAway        |-> isLookingAway,
            hasNoFace            |-> hasNoFace]

\* NoFaceBranch without "this.lastFaceDetectedTime = now" after the event.
NoFaceBranchNoRearm(t, n) ==
    LET started == IF ~t.hasNoFace THEN n ELSE t.lastFaceDetectedTime
        fire    == NoFaceTooLong(n, started)
    IN [t   |-> [t EXCEPT !.hasNoFace = TRUE, !.lastFaceDetectedTime = started],
        out |-> IF fire THEN <<DetectionEvent("NO_FACE", NO_FACE_CONFIDENCE)>> ELSE <<>>]

\* Branch faces.length === 0
NoFaceBranch(t, n) ==
    LET started == IF ~t.hasNoFace THEN n ELSE t.lastFaceDetectedTime
        fire    == NoFaceTooLong(n, started)
    IN [t   |-> [t EXCEPT !.hasNoFace = TRUE,
                          !.lastFaceDetectedTime = IF fire THEN n ELSE started],
        out |-> IF fire THEN <<DetectionEvent("NO_FACE", NO_FACE_CONFIDENCE)>> ELSE <<>>]

\* SingleFaceBranch without "this.isLookingAway = false" for a centered face.
SingleFaceBranchNoReset(t, face, n) ==
    LET t1 == [t EXCEPT !.hasNoFace = FALSE]
    IN IF ~IsFaceLookingAtCenter(face, VIDEO_WIDTH)
       THEN LET started == IF ~t1.isLookingAway THEN n ELSE t1.lastLookingAwayTime
                fire    == LookingAwayTooLong(n, started)
            IN [t   |-> [t1 EXCEPT !.isLookingAway = TRUE,
                                   !.lastLookingAwayTime = IF fire THEN n ELSE started],
                out |-> IF fire THEN <<DetectionEvent("FOCUS_LOST", FOCUS_LOST_CONFIDENCE)>>
                                ELSE <<>>]
       ELSE [t |-> t1, out |-> <<>>]

\* SingleFaceBranch without "this.lastLookingAwayTime = now" after the event.
SingleFaceBranchNoRearm(t, face, n) ==
    LET t1 == [t EXCEPT !.hasNoFace = FALSE]
    IN IF ~IsFaceLookingAtCenter(face, VIDEO_WIDTH)
       THEN LET started == IF ~t1.isLookingAway THEN n ELSE t1.lastLookingAwayTime
                fire    == LookingAwayTooLong(n, started)
            IN [t   |-> [t1 EXCEPT !.isLookingAway = TRUE,
                                   !.lastLookingAwayTime = started],
                out |-> IF fire THEN <<DetectionEvent("FOCUS_LOST", FOCUS_LOST_CONFIDENCE)>>
                                ELSE <<>>]
       ELSE [t |-> [t1 EXCEPT !.isLookingAway = FALSE], out |-> <<>>]

\* Branch faces.length === 1
SingleFaceBranch(t, face, n) ==
    LET t1 == [t EXCEPT !.hasNoFace = FALSE]
    IN IF ~IsFaceLookingAtCenter(face, VIDEO_WIDTH)
       THEN LET started == IF ~t1.isLookingAway THEN n ELSE t1.lastLookingAwayTime
                fire    == LookingAwayTooLong(n, started)
            IN [t   |-> [t1 EXCEPT !.isLookingAway = TRUE,
                                   !.lastLookingAwayTime = IF fire THEN n ELSE started],
                out |-> IF fire THEN <<DetectionEvent("FOCUS_LOST", FOCUS_LOST_CONFIDENCE)>>
                                ELSE <<>>]
       ELSE [t |-> [t1 EXCEPT !.isLookingAway = FALSE], out |-> <<>>]

\* MultipleFacesBranch that stays silent while a tracker condition is active.
MultipleFacesBranchDebounced(t, n) ==
    [t |-> t, out |-> IF t.hasNoFace \/ t.isLookingAway THEN <<>>
                      ELSE <<DetectionEvent("MULTIPLE_FACES", MULTIPLE_FACES_CONFIDENCE)>>]

\* Branch faces.length > 1
MultipleFacesBranch(t, n) ==
    [t |-> t, out |-> <<DetectionEvent("MULTIPLE_FACES", MULTIPLE_FACES_CONFIDENCE)>>]

\* The body of detectFaces after the detector has answered; a throw is caught and logged.
DetectFaces(t, res, n) ==
    IF ~res.ok THEN [t |-> t, out |-> <<>>]
    ELSE IF Len(res.faces) = 0 THEN NoFaceBranch(t, n)
    ELSE IF Len(res.faces) = 1 THEN SingleFaceBranch(t, res.faces[1], n)
    ELSE MultipleFacesBranch(t, n)

\* What a call observed, as the claims name it.
FaceKind(res) ==
    IF ~res.ok THEN "error"
    ELSE IF Len(res.faces) = 0 THEN "none"
    ELSE IF Len(res.faces) > 1 THEN "multiple"
    ELSE IF IsFaceLookingAtCenter(res.faces[1], VIDEO_WIDTH) THEN "centered"
    ELSE "offcenter"

----------------------------------------------------------------------------
(* DetectionSystem.detectObjects *)

\* A class name is the sequence of its characters.
CellPhone == <<"c", "e", "l", "l", " ", "p", "h", "o", "n", "e">>
Book == <<"B", "o", "o", "k">>
Notebook == <<"n", "o", "t", "e", "b", "o", "o", "k">>
Paper == <<"p", "a", "p", "e", "r">>
Person == <<"p", "e", "r", "s", "o", "n">>

Classes == {CellPhone, Book, Notebook, Paper, Person}

\* prediction.score, in hundredths
Scores == {87}

Prediction(class, score) == [class |-> class, score |-> score]

Predictions == {Prediction(c, sc) : c \in Classes, sc \in Scores}

\* The answers of the object detector: lists of predictions, or a throw.
PredictionLists ==
    { <<>> } \cup { <<Prediction(Paper, sc)>> : sc \in Scores }
             \cup { <<Prediction(Book, sc), Prediction(CellPhone, sc)>> : sc \in Scores }

ObjectResults == [ok : {TRUE}, predictions : PredictionLists]
                     \cup {[ok |-> FALSE, predictions |-> <<>>]}

\* Frames for the calls that look at objects only: one phone, one notebook, two
\* books in one frame, and matching labels between labels that match nothing.
ObjectFrames ==
    { <<>>,
      <<Prediction(CellPhone, 87)>>,
      <<Prediction(Notebook, 55)>>,
      <<Prediction(Book, 87), Prediction(Book, 55)>>,
      <<Prediction(Person, 87), Prediction(Paper, 55), Prediction(Person, 55),
        Prediction(CellPhone, 87)>> }

ObjectFrameResults == [ok : {TRUE}, predictions : ObjectFrames]
                          \cup {[ok |-> FALSE, predictions |-> <<>>]}

\* String.prototype.toLowerCase on one character
LowerChar(c) ==
    CASE c = "B" -> "b"
      [] c = "C" -> "c"
      [] c = "N" -> "n"
      [] c = "P" -> "p"
      [] OTHER   -> c

ToLowerCase(str) == [i \in 1..Len(str) |-> LowerChar(str[i])]

\* String.prototype.includes
Includes(str, sub) ==
    \E i \in 1..(Len(str) - Len(sub) + 1) : SubSeq(str, i, i + Len(sub) - 1) = sub

\* ClassifyPrediction that leaves the confidence to triggerEvent's default of 0.8.
ClassifyPredictionDefaultConfidence(prediction) ==
    LET objectClass == ToLowerCase(prediction.class)
        confidence  == 80
    IN IF Includes(objectClass, <<"p","h","o","n","e">>) \/ Includes(objectClass, CellPhone)
       THEN <<DetectionEvent("PHONE_DETECTED", confidence)>>
       ELSE IF Includes(objectClass, <<"b","o","o","k">>)
       THEN <<DetectionEvent("BOOK_DETECTED", confidence)>>
       ELSE IF Includes(objectClass, Paper) \/ Includes(objectClass, Notebook)
       THEN <<DetectionEvent("NOTES_DETECTED", confidence)>>
       ELSE <<>>

\* The if / else-if chain over one prediction: the event it triggers, if any.
ClassifyPrediction(prediction) ==
    LET objectClass == ToLowerCase(prediction.class)
        confidence  == prediction.score
    IN IF Includes(objectClass, <<"p","h","o","n","e">>) \/ Includes(objectClass, CellPhone)
       THEN <<DetectionEvent("PHONE_DETECTED", confidence)>>
       ELSE IF Includes(objectClass, <<"b","o","o","k">>)
       THEN <<DetectionEvent("BOOK_DETECTED", confidence)>>
       ELSE IF Includes(objectClass, Paper) \/ Includes(objectClass, Notebook)
       THEN <<DetectionEvent("NOTES_DETECTED", confidence)>>
       ELSE <<>>

\* DetectObjectsLoop that leaves the loop after the first event.
RECURSIVE DetectObjectsLoopFirstMatch(_)
DetectObjectsLoopFirstMatch(predictions) ==
    IF predictions = <<>> THEN <<>>
    ELSE IF ClassifyPrediction(Head(predictions)) # <<>>
         THEN ClassifyPrediction(Head(predictions))
         ELSE DetectObjectsLoopFirstMatch(Tail(predictions))

\* for (const prediction of predictions) ...; a throw of the detector is caught and logged.
RECURSIVE DetectObjectsLoop(_)
DetectObjectsLoop(predictions) ==
    IF predictions = <<>> THEN <<>>
    ELSE ClassifyPrediction(Head(predictions)) \o DetectObjectsLoop(Tail(predictions))

DetectObjects(res) == IF ~res.ok THEN <<>> ELSE DetectObjectsLoop(res.predictions)

----------------------------------------------------------------------------
(* Server actions: saveData and the score interpretation of generatePDF *)

Min(a, b) == IF a <= b THEN a ELSE b

\* Clamp without the lower bound.
ClampNoFloor(lo, hi, x) == Min(hi, x)

\* Math.max(lo, Math.min(hi, x))
Clamp(lo, hi, x) == Max(lo, Min(hi, x))

\* data.events.filter(e => e.type === type).length
FilterCount(evs, type) == Len(SelectSeq(evs, LAMBDA e : e.type = type))

\* EventCounts with the notes counter filtering on the book type.
EventCountsNotesAsBook(evs) ==
    [focusLostCount     |-> FilterCount(evs, "FOCUS_LOST"),
     phoneDetectedCount |-> FilterCount(evs, "PHONE_DETECTED"),
     multipleFacesCount |-> FilterCount(evs, "MULTIPLE_FACES"),
     noFaceCount        |-> FilterCount(evs, "NO_FACE"),
     notesDetectedCount |-> FilterCount(evs, "BOOK_DETECTED"),
     bookDetectedCount  |-> FilterCount(evs, "BOOK_DETECTED")]

\* const eventCounts = { ... }
EventCounts(evs) ==
    [focusLostCount     |-> FilterCount(evs, "FOCUS_LOST"),
     phoneDetectedCount |-> FilterCount(evs, "PHONE_DETECTED"),
     multipleFacesCount |-> FilterCount(evs, "MULTIPLE_FACES"),
     noFaceCount        |-> FilterCount(evs, "NO_FACE"),
     notesDetectedCount |-> FilterCount(evs, "NOTES_DETECTED"),
     bookDetectedCount  |-> FilterCount(evs, "BOOK_DETECTED")]

\* The row createInterviewAction inserts: an active interview without events.
CreatedInterview ==
    [status |-> "active", integrityScore |-> INITIAL_SCORE, totalEvents |-> 0,
     counts |-> EventCounts(<<>>)]

NoCall == [fn |-> "none", integrityScore |-> None, events |-> <<>>,
           success |-> FALSE, interpretation |-> "", deleted |-> 0]

\* InterviewData as saveData reads it; valid stands for the three required
\* fields being present, ended for endTime being given.
InterviewData(score, evs, valid, ended) ==
    [integrityScore |-> score, events |-> evs, valid |-> valid, ended |-> ended]

\* prisma.interview.update: the interview row after it.
UpdatedInterview(data) ==
    [status         |-> IF data.ended THEN "completed" ELSE "active",
     integrityScore |-> Clamp(0, 100, data.integrityScore),
     totalEvents    |-> Len(data.events),
     counts         |-> EventCounts(data.events)]

\* DeleteMany that deletes nothing.
DeleteManyKeepsRows(rows) == rows

\* prisma.detectionEvent.deleteMany({ where: { interviewId } }): the event rows of
\* the interview after it.
DeleteMany(rows) == <<>>

\* const eventsToInsert = data.events.map(...)
EventsToInsert(evs) ==
    [i \in 1..Len(evs) |-> [type       |-> evs[i].type,
                            confidence |-> Clamp(0, 100, evs[i].confidence)]]

\* prisma.detectionEvent.createMany, skipped for an empty list: the event rows
\* of the interview after it.
CreateMany(rows, evs) == IF Len(evs) > 0 THEN rows \o EventsToInsert(evs) ELSE rows

\* The record of a saveData call that has returned.
SaveCall(data, success, deleted) ==
    [fn |-> "saveData", integrityScore |-> data.integrityScore,
     events |-> data.events, success |-> success,
     interpretation |-> "", deleted |-> deleted]

\* One call of saveData during which no database operation fails and no other
\* call runs: validation, the update of the interview row, deleteMany of its
\* event rows and createMany of the submitted ones.
SaveData(data) ==
    /\ IF data.valid
       THEN /\ interview' = UpdatedInterview(data)
            /\ storedEvents' = CreateMany(DeleteMany(storedEvents), data.events)
       ELSE UNCHANGED <<interview, storedEvents>>
    /\ lastCall' = SaveCall(data, data.valid, IF data.valid THEN Len(storedEvents) ELSE 0)
    /\ UNCHANGED pending

\* Interpretation with exclusive lower bounds.
InterpretationExclusive(score) ==
    IF score > 90 THEN "Excellent - Highly trustworthy performance"
    ELSE IF score > 75 THEN "Good - Acceptable with minor concerns"
    ELSE IF score > 60 THEN "Average - Some compliance issues detected"
    ELSE IF score > 40 THEN "Poor - Multiple policy violations"
    ELSE "Critical - Severe integrity concerns"

\* Interpretation without the band from 75.
InterpretationNoGoodBand(score) ==
    IF score >= 90 THEN "Excellent - Highly trustworthy performance"
    ELSE IF score >= 75 THEN "Average - Some compliance issues detected"
    ELSE IF score >= 40 THEN "Poor - Multiple policy violations"
    ELSE "Critical - Severe integrity concerns"

\* const interpretation = score >= 90 ? ... : ...
Interpretation(score) ==
    IF score >= 90 THEN "Excellent - Highly trustworthy performance"
    ELSE IF score >= 75 THEN "Good - Acceptable with minor concerns"
    ELSE IF score >= 60 THEN "Average - Some compliance issues detected"
    ELSE IF score >= 40 THEN "Poor - Multiple policy violations"
    ELSE "Critical - Severe integrity concerns"

\* generatePDF, as far as the score assessment: the score is read from the
\* stored interview and interpreted.
GeneratePDF ==
    /\ lastCall' = [fn |-> "generatePDF", integrityScore |-> interview.integrityScore,
                    events |-> <<>>, success |-> TRUE,
                    interpretation |-> Interpretation(interview.integrityScore),
                    deleted |-> 0]
    /\ UNCHANGED <<interview, storedEvents, pending>>

----------------------------------------------------------------------------
(* State machine *)

NoObjects == [ok |-> TRUE, predictions |-> <<>>]

Init ==
    /\ now = 0
    /\ isInitialized = FALSE
    /\ lastFaceDetectedTime = 0         \* = Date.now() at construction
    /\ lastLookingAwayTime = 0          \* = Date.now() at construction
    /\ isLookingAway = FALSE
    /\ hasNoFace = FALSE
    /\ integrityScore = INITIAL_SCORE
    /\ events = <<>>
    /\ tickNo = 0
    /\ last = [kind |-> "start", faceOut |-> <<>>, emitted |-> <<>>,
               predictions |-> <<>>, objOut |-> <<>>, objOk |-> TRUE]
    /\ run = [kind |-> "start", start |-> 0, len |-> 0, emits |-> 0,
              armed |-> FALSE, first |-> TRUE]
    /\ multiTicks = 0
    /\ badStart = None
    /\ absenceStart = None
    /\ interview = CreatedInterview
    /\ storedEvents = <<>>
    /\ lastCall = NoCall
    /\ pending = {}
    /\ mounted = TRUE
    /\ stream = FALSE
    /\ recording = FALSE
    /\ detectionInitialized = FALSE
    /\ detectionIntervalRef = None
    /\ intervals = {}
    /\ startTimeouts = <<>>
    /\ saveTimeouts = <<>>
    /\ loop = [created |-> 0, fires |-> 0, firedId |-> None, calls |-> 0,
               starts |-> 0, ends |-> 0, endMark |-> 0, mounts |-> 1]

\* DetectionSystem.initialize as awaited by initializeDetection of the room page,
\* which installs the event callback as soon as it returns.
Initialize ==
    /\ ~isInitialized
    /\ \E success \in BOOLEAN : isInitialized' = success
    /\ UNCHANGED <<now, lastFaceDetectedTime, lastLookingAwayTime, isLookingAway,
                   hasNoFace, integrityScore, events, tickNo, last, run,
                   multiTicks, badStart, absenceStart, serverVars, pageVars>>

\* One call of runDetection, dt after the previous one.  The two detections run
\* concurrently (Promise.all); faceFirst says whose detector answers first.
RunDetection(dt, faceRes, objRes, faceFirst) ==
    LET n       == now + dt
        ran     == isInitialized
        fr      == IF ran THEN DetectFaces(Tracker, faceRes, n)
                          ELSE [t |-> Tracker, out |-> <<>>]
        objOut  == IF ran THEN DetectObjects(objRes) ELSE <<>>
        emitted == IF faceFirst THEN fr.out \o objOut ELSE objOut \o fr.out
        page    == TriggerEvents(Page, emitted)
        kind    == IF ran THEN FaceKind(faceRes) ELSE "skipped"
        armed   == CASE kind = "offcenter" -> isLookingAway
                     [] kind = "none"      -> hasNoFace
                     [] OTHER              -> FALSE
    IN /\ now' = n
       /\ lastFaceDetectedTime' = fr.t.lastFaceDetectedTime
       /\ lastLookingAwayTime' = fr.t.lastLookingAwayTime
       /\ isLookingAway' = fr.t.isLookingAway
       /\ hasNoFace' = fr.t.hasNoFace
       /\ events' = page.events
       /\ integrityScore' = page.integrityScore
       /\ tickNo' = tickNo + 1
       /\ last' = [kind |-> kind, faceOut |-> fr.out, emitted |-> emitted,
                   predictions |-> IF ran THEN objRes.predictions ELSE <<>>,
                   objOut |-> objOut, objOk |-> ~ran \/ objRes.ok]
       /\ run' = IF kind = run.kind
                 THEN [run EXCEPT !.len = @ + 1, !.emits = @ + Len(fr.out)]
                 ELSE [kind |-> kind, start |-> n, len |-> 1, emits |-> Len(fr.out),
                       armed |-> armed,
                       first |-> run.first /\ run.kind \in {"start", "skipped", "error"}]
       /\ multiTicks' = IF kind = "multiple" THEN multiTicks + 1 ELSE multiTicks
       /\ badStart' = CASE kind = "centered" -> None
                        [] kind \in {"offcenter", "none"} /\ last.kind = "centered" -> n
                        [] OTHER -> badStart
       /\ absenceStart' = CASE kind \in {"centered", "offcenter"} -> None
                            [] kind = "none" /\ absenceStart = None -> n
                            [] OTHER -> absenceStart
       /\ UNCHANGED <<isInitialized, serverVars, pageVars>>

\* Distance of a detection call to the previous one: the timer period or, when
\* a detector is slow to answer, a second more.
TickSteps == {DETECTION_INTERVAL, DETECTION_INTERVAL + 1000}

\* A detection call on any frame.
Tick ==
    /\ tickNo < MaxTicks
    /\ \E dt \in TickSteps, faceRes \in FaceResults,
          objRes \in ObjectResults, faceFirst \in BOOLEAN :
          RunDetection(dt, faceRes, objRes, faceFirst)
    /\ Len(events') <= MaxEvents

\* A detection call exactly one timer period after the previous one, on a frame
\* without objects.
PeriodicTick ==
    /\ tickNo < MaxPeriodicTicks
    /\ \E faceRes \in FaceResults :
          RunDetection(DETECTION_INTERVAL, faceRes, NoObjects, TRUE)
    /\ Len(events') <= MaxPeriodicEvents

\* A detection call one timer period after the previous one, on a frame whose
\* faces raise no timed condition, with any of the object frames.
ObjectTick ==
    /\ tickNo < MaxObjectTicks
    /\ \E faces \in {<<CenteredFace>>, <<CenteredFace, OffCenterFace>>},
          objRes \in ObjectFrameResults, faceFirst \in BOOLEAN :
          RunDetection(DETECTION_INTERVAL, [ok |-> TRUE, faces |-> faces],
                       objRes, faceFirst)
    /\ Len(events') <= MaxObjectEvents

\* The events the detection system can hand to the callback.
EmittableEvents ==
    { DetectionEvent("FOCUS_LOST", FOCUS_LOST_CONFIDENCE),
      DetectionEvent("NO_FACE", NO_FACE_CONFIDENCE),
      DetectionEvent("MULTIPLE_FACES", MULTIPLE_FACES_CONFIDENCE) }
    \cup { DetectionEvent(type, sc) :
              type \in {"PHONE_DETECTED", "NOTES_DETECTED", "BOOK_DETECTED"}, sc \in Scores }

\* One invocation of the event callback, whatever call of runDetection it comes
\* from, while the log is shorter than maxLen.
OnDetectionEventUpTo(maxLen) ==
    /\ Len(events) < maxLen
    /\ \E event \in EmittableEvents :
          LET page == EventCallback(Page, event)
          IN /\ events' = page.events
             /\ integrityScore' = page.integrityScore
             /\ last' = [kind |-> "callback", faceOut |-> <<>>, emitted |-> <<event>>,
                         predictions |-> <<>>, objOut |-> <<>>, objOk |-> TRUE]
    /\ UNCHANGED <<now, isInitialized, lastFaceDetectedTime, lastLookingAwayTime,
                   isLookingAway, hasNoFace, tickNo, run, multiTicks, badStart,
                   absenceStart, serverVars, pageVars>>

OnDetectionEvent == OnDetectionEventUpTo(MaxLog)

\* The event callback in a session that is saved later.
RecordEvent == OnDetectionEventUpTo(MaxSavedLog)

Next == Initialize \/ Tick

Spec == Init /\ [][Next]_vars

NextPeriodic == Initialize \/ PeriodicTick

SpecPeriodic == Init /\ [][NextPeriodic]_vars

NextObjects == Initialize \/ ObjectTick

SpecObjects == Init /\ [][NextObjects]_vars

----------------------------------------------------------------------------
(* The room page: camera, detection loop, start and end of the interview *)

\* initializeCamera, when the user grants the camera: setStream(mediaStream).
InitializeCamera ==
    /\ mounted
    /\ ~stream
    /\ stream' = TRUE
    /\ UNCHANGED <<isInitialized, sessionVars, serverVars, mounted, recording,
                   detectionInitialized, detectionIntervalRef, intervals,
                   startTimeouts, saveTimeouts, loop>>

\* initializeDetection: detectionSystem.initialize() succeeds or not, and in both
\* cases setDetectionInitialized(true) and the event callback is installed.
InitializeDetection ==
    /\ mounted
    /\ ~detectionInitialized
    /\ \E success \in BOOLEAN : isInitialized' = success
    /\ detectionInitialized' = TRUE
    /\ UNCHANGED <<sessionVars, serverVars, mounted, stream, recording,
                   detectionIntervalRef, intervals, startTimeouts, saveTimeouts, loop>>

\* The timers, the ref and the number of timers created, left as they are.
LoopAsIs == [intervals |-> intervals, ref |-> detectionIntervalRef, created |-> loop.created]

\* startDetectionLoop as defined in a render whose state is (renderInitialized,
\* renderRecording): the timers, the ref and the number of timers created after it.
\* The interval callback closes over that render's recording.
StartDetectionLoop(renderInitialized, renderRecording) ==
    IF ~mounted \/ ~renderInitialized
    THEN LoopAsIs
    ELSE [intervals |-> intervals \cup {[id |-> loop.created + 1,
                                          recording |-> renderRecording]},
          ref       |-> loop.created + 1,
          created   |-> loop.created + 1]

\* StopDetectionLoop that forgets the timer without clearing it.
StopDetectionLoopKeepsTimer(ivs, ref) == [intervals |-> ivs, ref |-> None]

\* stopDetectionLoop: clearInterval of the timer the ref holds, if any.
StopDetectionLoop(ivs, ref) ==
    IF ref # None
    THEN [intervals |-> {t \in ivs : t.id # ref}, ref |-> None]
    ELSE [intervals |-> ivs, ref |-> ref]

\* startInterview, the click handler of the button rendered while
\* stream && !recording; it runs with the state of that render.
StartInterview ==
    /\ mounted /\ stream /\ ~recording
    /\ loop.starts < MaxStarts
    /\ recording' = TRUE
    /\ LET started == IF detectionInitialized
                       THEN StartDetectionLoop(detectionInitialized, recording)
                       ELSE LoopAsIs
       IN /\ intervals' = started.intervals
          /\ detectionIntervalRef' = started.ref
          /\ loop' = [loop EXCEPT !.created = started.created, !.starts = @ + 1]
    /\ startTimeouts' = IF detectionInitialized THEN startTimeouts
                        ELSE Append(startTimeouts,
                                    [detectionInitialized |-> detectionInitialized,
                                     recording |-> recording])
    /\ UNCHANGED <<isInitialized, sessionVars, serverVars, mounted, stream,
                   detectionInitialized, saveTimeouts>>

\* The 5 s timeout of startInterview fires: if (detectionInitialized)
\* startDetectionLoop(), both of the render that set the timeout.
DelayedStart ==
    /\ startTimeouts # <<>>
    /\ LET closure == Head(startTimeouts)
           started == StartDetectionLoop(closure.detectionInitialized, closure.recording)
       IN /\ intervals' = started.intervals
          /\ detectionIntervalRef' = started.ref
          /\ loop' = [loop EXCEPT !.created = started.created]
    /\ startTimeouts' = Tail(startTimeouts)
    /\ UNCHANGED <<isInitialized, sessionVars, serverVars, mounted, stream, recording,
                   detectionInitialized, saveTimeouts>>

\* One run of an interval callback: if (videoRef.current && recording) it calls
\* runDetection, recording being the one its closure holds.
IntervalFire ==
    /\ loop.fires < MaxFires
    /\ \E t \in intervals :
          loop' = [loop EXCEPT !.fires = @ + 1, !.firedId = t.id,
                               !.calls = IF mounted /\ t.recording THEN @ + 1 ELSE @]
    /\ UNCHANGED <<isInitialized, sessionVars, serverVars, mounted, stream, recording,
                   detectionInitialized, detectionIntervalRef, intervals,
                   startTimeouts, saveTimeouts>>

\* endInterview, the click handler of the button rendered while recording:
\* setRecording(false), stopDetectionLoop() and the 2 s timeout that saves what
\* this render holds.
EndInterview ==
    /\ mounted /\ recording
    /\ recording' = FALSE
    /\ LET stopped == StopDetectionLoop(intervals, detectionIntervalRef)
       IN /\ intervals' = stopped.intervals
          /\ detectionIntervalRef' = stopped.ref
    /\ saveTimeouts' = Append(saveTimeouts,
                              [integrityScore |-> integrityScore, events |-> events])
    /\ loop' = [loop EXCEPT !.ends = @ + 1, !.endMark = loop.created]
    /\ UNCHANGED <<isInitialized, sessionVars, serverVars, mounted, stream,
                   detectionInitialized, startTimeouts>>

\* The 2 s timeout of endInterview fires: saveData with the data of its closure,
\* then router.push, which unmounts the page: the cleanup of the mount effect
\* stops the detection loop and destroys the detection system.
SaveTimeout ==
    /\ saveTimeouts # <<>>
    /\ LET closure == Head(saveTimeouts)
       IN SaveData(InterviewData(closure.integrityScore, closure.events, TRUE, TRUE))
    /\ saveTimeouts' = Tail(saveTimeouts)
    /\ mounted' = FALSE
    /\ LET stopped == IF mounted THEN StopDetectionLoop(intervals, detectionIntervalRef)
                       ELSE [intervals |-> intervals, ref |-> detectionIntervalRef]
       IN /\ intervals' = stopped.intervals
          /\ detectionIntervalRef' = stopped.ref
    /\ isInitialized' = IF mounted THEN FALSE ELSE isInitialized
    /\ UNCHANGED <<sessionVars, stream, recording, detectionInitialized,
                   startTimeouts, loop>>

NextPage == InitializeCamera \/ InitializeDetection \/ StartInterview \/ DelayedStart
               \/ IntervalFire \/ EndInterview \/ SaveTimeout

SpecPage == Init /\ [][NextPage]_vars

\* The detection system hands an event to the callback the page has installed,
\* at any time from the installation until the page is left: while the interview
\* is recording or, for a detection call that has not returned yet, after End
\* Interview.  Who makes the detection calls is left open here; SpecPage shows
\* that the page's own timer callbacks make none.
DeliverEvent ==
    /\ mounted /\ detectionInitialized /\ isInitialized
    /\ RecordEvent

NextRoom == NextPage \/ DeliverEvent

SpecRoom == Init /\ [][NextRoom]_vars

\* The scores a caller of saveData can submit.
SubmittedScores == (0 - ScoreMargin)..(100 + ScoreMargin)

\* The confidences a caller can submit differ from the recorded ones by one of
\* these offsets (hundredths).
ConfidenceOffsets == {0 - 100, 0, 100}

Shifted(evs, offset) ==
    [i \in 1..Len(evs) |-> [evs[i] EXCEPT !.confidence = @ + offset]]

\* saveData called for an ended session with any score and the recorded events.
SubmitScore ==
    /\ \E score \in SubmittedScores :
          SaveData(InterviewData(score, events, TRUE, TRUE))
    /\ UNCHANGED clientVars

\* saveData called for an ended session with the recorded events, their
\* confidences in or out of range, and the session's score or one out of range.
SubmitSession ==
    /\ \E score \in {integrityScore, 0 - ScoreMargin, 100 + ScoreMargin},
          offset \in ConfidenceOffsets, valid \in BOOLEAN :
          SaveData(InterviewData(score, Shifted(events, offset), valid, TRUE))
    /\ UNCHANGED clientVars

\* generatePDF called for the room.
GenerateReport ==
    /\ GeneratePDF
    /\ UNCHANGED clientVars

\* The sessions submitted to the saveData calls that are followed step by step:
\* no event, one event, two events, each with the score that belongs to it.
StorageSessions ==
    { InterviewData(100, <<>>, TRUE, TRUE),
      InterviewData(95, <<DetectionEvent("FOCUS_LOST", FOCUS_LOST_CONFIDENCE)>>, TRUE, TRUE),
      InterviewData(75, <<DetectionEvent("FOCUS_LOST", FOCUS_LOST_CONFIDENCE),
                          DetectionEvent("PHONE_DETECTED", 87)>>, TRUE, TRUE) }

\* A call of saveData in progress: its input, the database operation it is
\* about to await, and the count deleteMany has returned to it.
SaveInProgress(id, data, pc, deleted) ==
    [id |-> id, data |-> data, pc |-> pc, deleted |-> deleted]

\* saveData is called with valid data: the call is about to await the update.
CallSaveData ==
    /\ \E id \in 1..MaxCalls, data \in StorageSessions :
          /\ \A c \in pending : c.id # id
          /\ pending' = pending \cup {SaveInProgress(id, data, "update", 0)}
    /\ UNCHANGED <<clientVars, interview, storedEvents, lastCall>>

\* await prisma.interview.update of a call in progress.
SaveUpdate ==
    /\ \E c \in pending :
          /\ c.pc = "update"
          /\ interview' = UpdatedInterview(c.data)
          /\ pending' = (pending \ {c}) \cup {[c EXCEPT !.pc = "delete"]}
    /\ UNCHANGED <<clientVars, storedEvents, lastCall>>

\* await prisma.detectionEvent.deleteMany of a call in progress; a call without
\* events returns after it.
SaveDelete ==
    /\ \E c \in pending :
          /\ c.pc = "delete"
          /\ storedEvents' = DeleteMany(storedEvents)
          /\ IF Len(c.data.events) > 0
             THEN /\ pending' = (pending \ {c})
                                    \cup {[c EXCEPT !.pc = "insert",
                                                    !.deleted = Len(storedEvents)]}
                  /\ UNCHANGED lastCall
             ELSE /\ pending' = pending \ {c}
                  /\ lastCall' = SaveCall(c.data, TRUE, Len(storedEvents))
    /\ UNCHANGED <<clientVars, interview>>

\* await prisma.detectionEvent.createMany of a call in progress, after which the
\* call returns.
SaveInsert ==
    /\ \E c \in pending :
          /\ c.pc = "insert"
          /\ storedEvents' = CreateMany(storedEvents, c.data.events)
          /\ pending' = pending \ {c}
          /\ lastCall' = SaveCall(c.data, TRUE, c.deleted)
    /\ UNCHANGED <<clientVars, interview>>

\* The database operation a call in progress awaits throws (the connection is
\* lost, the request times out): the catch block returns success: false and
\* what the earlier operations of the call have written stays.
SaveFail ==
    /\ \E c \in pending :
          /\ pending' = pending \ {c}
          /\ lastCall' = SaveCall(c.data, FALSE, c.deleted)
    /\ UNCHANGED <<clientVars, interview, storedEvents>>

NextStorage == CallSaveData \/ SaveUpdate \/ SaveDelete \/ SaveInsert \/ SaveFail

SpecStorage == Init /\ [][NextStorage]_vars

NextReport == SubmitScore \/ GenerateReport

SpecReport == Init /\ [][NextReport]_vars

NextSave == RecordEvent \/ SubmitSession

SpecSave == Init /\ [][NextSave]_vars

\* Time between leaving the room page and the first render of the next room
\* page: the next room is opened at once, or some twelve seconds later.
SessionGaps == {DETECTION_INTERVAL, 6 * DETECTION_INTERVAL}

\* The room page is left and a room page is opened again by client-side
\* navigation (the dashboard links to /room/<roomId>).  The cleanup of the mount
\* effect stops the detection loop and calls detectionSystem.destroy(); the new
\* page starts from the initial values of its useState and useRef hooks and
\* imports the same detectionSystem instance, whose fields other than the
\* detectors and isInitialized no code resets.  Taken when no timer of the page
\* that is left is pending.
Remount ==
    /\ loop.mounts < MaxMounts
    /\ intervals = {} /\ startTimeouts = <<>> /\ saveTimeouts = <<>>
    /\ \E gap \in SessionGaps : now' = now + gap
    /\ isInitialized' = FALSE
    /\ integrityScore' = INITIAL_SCORE
    /\ events' = <<>>
    /\ mounted' = TRUE
    /\ stream' = FALSE
    /\ recording' = FALSE
    /\ detectionInitialized' = FALSE
    /\ detectionIntervalRef' = None
    /\ loop' = [loop EXCEPT !.mounts = @ + 1]
    /\ last' = [kind |-> "start", faceOut |-> <<>>, emitted |-> <<>>,
                predictions |-> <<>>, objOut |-> <<>>, objOk |-> TRUE]
    /\ run' = [kind |-> "start", start |-> now', len |-> 0, emits |-> 0,
               armed |-> FALSE, first |-> TRUE]
    /\ multiTicks' = 0
    /\ badStart' = None
    /\ absenceStart' = None
    /\ UNCHANGED <<lastFaceDetectedTime, lastLookingAwayTime, isLookingAway, hasNoFace,
                   tickNo, intervals, startTimeouts, saveTimeouts, serverVars>>

\* A detection call one timer period after the previous one, on a frame with no
\* face, one face or a failing face detector, and without objects.
SessionTick ==
    /\ tickNo < MaxSessionTicks
    /\ \E faceRes \in {r \in FaceResults : Len(r.faces) <= 1} :
          RunDetection(DETECTION_INTERVAL, faceRes, NoObjects, TRUE)

NextSessions == Initialize \/ SessionTick \/ Remount

SpecSessions == Init /\ [][NextSessions]_vars

NextCallback == OnDetectionEvent

SpecCallback == Init /\ [][NextCallback]_vars

TypeOK ==
    /\ now \in Nat
    /\ isInitialized \in BOOLEAN
    /\ isLookingAway \in BOOLEAN
    /\ hasNoFace \in BOOLEAN
    /\ lastFaceDetectedTime \in 0..now
    /\ lastLookingAwayTime \in 0..now
    /\ integrityScore \in Int
    /\ Len(events) <= MaxLog

----------------------------------------------------------------------------
(* Properties *)

IsTick == tickNo' = tickNo + 1

NewEvents == SubSeq(events', Len(events) + 1, Len(events'))

FocusLostEvent == [type |-> "FOCUS_LOST", confidence |-> 80]
NoFaceEvent == [type |-> "NO_FACE", confidence |-> 90]
MultipleFacesEvent == [type |-> "MULTIPLE_FACES", confidence |-> 90]

RECURSIVE CountOf(_, _)
CountOf(evs, type) ==
    IF evs = <<>> THEN 0
    ELSE (IF Head(evs).type = type THEN 1 ELSE 0) + CountOf(Tail(evs), type)

\* The deduction table as the specification states it.
TableDeduction(type) ==
    CASE type = "FOCUS_LOST"      -> 5
      [] type = "NO_FACE"         -> 10
      [] type = "MULTIPLE_FACES"  -> 15
      [] type = "PHONE_DETECTED"  -> 20
      [] type = "NOTES_DETECTED"  -> 15
      [] type = "BOOK_DETECTED"   -> 15

RECURSIVE TableSum(_)
TableSum(evs) ==
    IF evs = <<>> THEN 0 ELSE TableDeduction(Head(evs).type) + TableSum(Tail(evs))

RECURSIVE TableApply(_, _)
TableApply(score, evs) ==
    IF evs = <<>> THEN score
    ELSE TableApply(Max(0, score - TableDeduction(Head(evs).type)), Tail(evs))

\* C1: the integrity score starts at 100, never increases from one state to the
\* next, and is always an integer in [0,100].
C1_ScoreMonotoneBounded ==
    /\ integrityScore = 100
    /\ [][integrityScore' <= integrityScore /\ integrityScore' \in 0..100]_vars

\* The score has been driven down to 0 by recorded events.
C1_Witness == integrityScore = 0 /\ events # <<>>

\* C2: applying one violation event sets score' = max(0, score - d(kind)) with
\* d the fixed table FOCUS_LOST=5, NO_FACE=10, MULTIPLE_FACES=15, PHONE_DETECTED=20,
\* NOTES_DETECTED=15, BOOK_DETECTED=15; the events of a step are applied in order.
C2_DeductionApplied ==
    [][ /\ Len(events') >= Len(events)
        /\ integrityScore' = TableApply(integrityScore, NewEvents) ]_vars

\* Every kind has been applied and the last event was cut off at 0.
C2_Witness ==
    /\ integrityScore = 0
    /\ TableSum(events) > 100
    /\ \E i \in 1..Len(events) : events[i].type = "FOCUS_LOST"
    /\ \E i \in 1..Len(events) : events[i].type = "PHONE_DETECTED"

\* C3 as stated: on a tick with exactly one off-center face where the looking-away
\* condition was already active, FOCUS_LOST (confidence 0.8) is emitted if and only
\* if now - lastGoodTime >= 5000 ms, and on emission lastGoodTime is reset to now.
C3_Original ==
    [][ (IsTick /\ last'.kind = "offcenter" /\ isLookingAway) =>
          /\ (last'.faceOut = <<FocusLostEvent>>) <=> (now' - lastLookingAwayTime >= 5000)
          /\ last'.faceOut # <<>> => last'.faceOut = <<FocusLostEvent>>
          /\ last'.faceOut = <<FocusLostEvent>> => lastLookingAwayTime' = now' ]_vars

\* C3 (amended): on such a tick FOCUS_LOST (confidence 0.8) is emitted if and only
\* if now - lastLookingAwayTime > 5000 ms (an elapsed time of exactly 5000 ms does
\* not emit); on emission lastLookingAwayTime is reset to now, otherwise it is kept.
C3_FocusLostStrictThreshold ==
    [][ (IsTick /\ last'.kind = "offcenter" /\ isLookingAway) =>
          /\ (last'.faceOut = <<FocusLostEvent>>) <=> (now' - lastLookingAwayTime > 5000)
          /\ last'.faceOut # <<>> => last'.faceOut = <<FocusLostEvent>>
          /\ lastLookingAwayTime' =
                IF last'.faceOut = <<FocusLostEvent>> THEN now' ELSE lastLookingAwayTime
          /\ isLookingAway' ]_vars

\* An off-center tick has just emitted FOCUS_LOST and re-armed the timer.
C3_Witness ==
    /\ last.kind = "offcenter"
    /\ last.faceOut = <<FocusLostEvent>>
    /\ isLookingAway
    /\ lastLookingAwayTime = now

\* C4 as stated: on a tick with zero faces where the no-face condition was already
\* active, NO_FACE (confidence 0.9) is emitted if and only if
\* now - lastGoodTime >= 10000 ms, and on emission lastGoodTime is reset to now.
C4_Original ==
    [][ (IsTick /\ last'.kind = "none" /\ hasNoFace) =>
          /\ (last'.faceOut = <<NoFaceEvent>>) <=> (now' - lastFaceDetectedTime >= 10000)
          /\ last'.faceOut # <<>> => last'.faceOut = <<NoFaceEvent>>
          /\ last'.faceOut = <<NoFaceEvent>> => lastFaceDetectedTime' = now' ]_vars

\* C4 (amended): on such a tick NO_FACE (confidence 0.9) is emitted if and only if
\* now - lastFaceDetectedTime > 10000 ms (an elapsed time of exactly 10000 ms does
\* not emit); on emission lastFaceDetectedTime is reset to now, otherwise it is kept.
C4_NoFaceStrictThreshold ==
    [][ (IsTick /\ last'.kind = "none" /\ hasNoFace) =>
          /\ (last'.faceOut = <<NoFaceEvent>>) <=> (now' - lastFaceDetectedTime > 10000)
          /\ last'.faceOut # <<>> => last'.faceOut = <<NoFaceEvent>>
          /\ lastFaceDetectedTime' =
                IF last'.faceOut = <<NoFaceEvent>> THEN now' ELSE lastFaceDetectedTime
          /\ hasNoFace' ]_vars

\* A zero-face tick has just emitted NO_FACE and re-armed the timer.
C4_Witness ==
    /\ last.kind = "none"
    /\ last.faceOut = <<NoFaceEvent>>
    /\ hasNoFace
    /\ lastFaceDetectedTime = now

\* C9: MULTIPLE_FACES (confidence 0.9) is emitted on every tick whose face count
\* is greater than 1 and on no other tick, so the number of MULTIPLE_FACES events
\* equals the number of such ticks, whatever the timer state of the trackers.
C9_MultipleFacesEveryTick ==
    /\ [](CountOf(events, "MULTIPLE_FACES") = multiTicks)
    /\ [][ IsTick =>
             /\ (last'.kind = "multiple") <=> (last'.faceOut = <<MultipleFacesEvent>>)
             /\ CountOf(NewEvents, "MULTIPLE_FACES")
                   = (IF last'.kind = "multiple" THEN 1 ELSE 0)
             /\ last'.kind = "multiple" =>
                   UNCHANGED <<isLookingAway, hasNoFace, lastLookingAwayTime,
                               lastFaceDetectedTime>> ]_vars

\* A multi-face tick has emitted while both tracker conditions were active.
C9_Witness ==
    /\ last.kind = "multiple"
    /\ last.faceOut = <<MultipleFacesEvent>>
    /\ CountOf(events, "MULTIPLE_FACES") = 1
    /\ isLookingAway
    /\ hasNoFace

\* C10: a tick with exactly one centered face sets both condition flags to false;
\* a bad tick directly after it starts its countdown at its own time and emits
\* nothing, and no FOCUS_LOST / NO_FACE is emitted before a full threshold has
\* passed since that bad tick.
C10_GoodTickResets ==
    /\ [][ IsTick =>
             /\ last'.kind = "centered" => (~isLookingAway' /\ ~hasNoFace')
             /\ (last.kind = "centered" /\ last'.kind = "offcenter") =>
                   (isLookingAway' /\ lastLookingAwayTime' = now' /\ last'.faceOut = <<>>)
             /\ (last.kind = "centered" /\ last'.kind = "none") =>
                   (hasNoFace' /\ lastFaceDetectedTime' = now' /\ last'.faceOut = <<>>) ]_vars
    /\ [](badStart # None =>
             /\ CountOf(last.faceOut, "FOCUS_LOST") > 0 => now - badStart >= 5000
             /\ CountOf(last.faceOut, "NO_FACE") > 0 => now - badStart >= 10000)

\* NO_FACE has been emitted in the zero-face run that began right after a good tick.
C10_Witness ==
    /\ badStart # None
    /\ last.faceOut = <<NoFaceEvent>>
    /\ run.kind = "none"
    /\ run.start = badStart

\* Length in ms of the current run, from its first tick.
RunSpan == now - run.start

\* C5 as stated: over a run of consecutive ticks that all observe one off-center
\* face, spanning T ms from the first such tick, the number of FOCUS_LOST events
\* equals floor(T / 5000) (2000 ms tick spacing).
C5_Original ==
    run.kind = "offcenter" => run.emits = RunSpan \div 5000

\* C5 (amended): over such a run FOCUS_LOST is emitted at most once per 5000 ms,
\* and at the 2000 ms tick spacing the number emitted is floor(T / 6000) when the
\* first tick of the run found the looking-away condition inactive, and
\* floor(T / 6000) or floor(T / 6000) + 1 when it found it still active.
C5_FocusLostCountPerRun ==
    run.kind = "offcenter" =>
        /\ run.emits \in (IF run.armed THEN {RunSpan \div 6000, RunSpan \div 6000 + 1}
                                       ELSE {RunSpan \div 6000})
        /\ run.emits * 5000 <= RunSpan + (IF run.armed THEN 5000 ELSE 0)

\* Ten seconds into an off-center run that began with the condition inactive,
\* one FOCUS_LOST has been emitted.
C5_Witness ==
    /\ run.kind = "offcenter"
    /\ ~run.armed
    /\ RunSpan = 10000
    /\ run.emits = 1

\* C6 as stated: over a run of consecutive ticks that all observe zero faces,
\* spanning T ms from the first such tick, the number of NO_FACE events equals
\* floor(T / 10000) (2000 ms tick spacing).
C6_Original ==
    run.kind = "none" => run.emits = RunSpan \div 10000

\* C6 (amended): at the 2000 ms tick spacing the number of NO_FACE events over
\* such a run is floor(T / 12000) when the first tick of the run found the no-face
\* condition inactive, and floor(T / 12000) or floor(T / 12000) + 1 when it found
\* it still active.
C6_NoFaceCountPerRun ==
    run.kind = "none" =>
        run.emits \in (IF run.armed THEN {RunSpan \div 12000, RunSpan \div 12000 + 1}
                                    ELSE {RunSpan \div 12000})

\* Twelve seconds into a zero-face run that began with the condition inactive,
\* one NO_FACE has been emitted.
C6_Witness ==
    /\ run.kind = "none"
    /\ ~run.armed
    /\ RunSpan = 12000
    /\ run.emits = 1

\* The session is fresh up to the current run: no earlier tick observed a face result.
FreshRun(kind) == run.kind = kind /\ run.first

\* C7 as stated: from a fresh session, three consecutive ticks at 2 s spacing that
\* each observe one off-center face produce exactly one FOCUS_LOST, emitted on the
\* 3rd tick, and the score after the 3rd tick is 95.
C7_Original ==
    (FreshRun("offcenter") /\ run.len = 3) =>
        /\ events = <<FocusLostEvent>>
        /\ last.emitted = <<FocusLostEvent>>
        /\ integrityScore = 95

\* C7 (amended): from a fresh session, four consecutive ticks at 2 s spacing that
\* each observe one off-center face produce exactly one FOCUS_LOST, emitted on the
\* 4th tick, and the score after the 4th tick is 95; up to the 3rd tick nothing is
\* emitted and the score is 100.
C7_FocusLostOnFourthTick ==
    FreshRun("offcenter") =>
        /\ run.len <= 3 => (events = <<>> /\ integrityScore = 100)
        /\ run.len = 4 => /\ events = <<FocusLostEvent>>
                          /\ last.emitted = <<FocusLostEvent>>
                          /\ integrityScore = 95

\* The 4th off-center tick of a fresh session has emitted FOCUS_LOST.
C7_Witness ==
    /\ FreshRun("offcenter")
    /\ run.len = 4
    /\ events = <<FocusLostEvent>>
    /\ integrityScore = 95

\* No NO_FACE is emitted unless the absence that began with the first zero-face
\* tick since the latest one-face tick has lasted at least 10 s, and a tick that
\* observes one face resets the no-face condition.
FreshAbsenceRequired ==
    /\ [](CountOf(last.faceOut, "NO_FACE") > 0 =>
             (absenceStart # None /\ now - absenceStart >= 10000))
    /\ [][ (IsTick /\ last'.kind \in {"centered", "offcenter"}) => ~hasNoFace' ]_vars

----------------------------------------------------------------------------
(* Object labels *)

\* The call ran both detections (the detection system was initialized).
Ran(l) == l.kind \in {"error", "none", "multiple", "centered", "offcenter"}

Phone == <<"p", "h", "o", "n", "e">>

LabelContains(prediction, sub) == Includes(ToLowerCase(prediction.class), sub)

\* The label table as the specification states it, "notebook" being notes.
TableKind(prediction) ==
    IF LabelContains(prediction, Phone) THEN <<"PHONE_DETECTED">>
    ELSE IF LabelContains(prediction, Paper) \/ LabelContains(prediction, Notebook)
    THEN <<"NOTES_DETECTED">>
    ELSE IF LabelContains(prediction, <<"b", "o", "o", "k">>) THEN <<"BOOK_DETECTED">>
    ELSE <<>>

RECURSIVE TableKinds(_)
TableKinds(predictions) ==
    IF predictions = <<>> THEN <<>>
    ELSE TableKind(Head(predictions)) \o TableKinds(Tail(predictions))

KindsOf(evs) == [i \in 1..Len(evs) |-> evs[i].type]

ConfidencesOf(evs) == [i \in 1..Len(evs) |-> evs[i].confidence]

ScoresOf(predictions) == [i \in 1..Len(predictions) |-> predictions[i].score]

MatchesTable(prediction) == TableKind(prediction) # <<>>

IsContraband(event) ==
    event.type \in {"PHONE_DETECTED", "NOTES_DETECTED", "BOOK_DETECTED"}

\* C11: object labels are mapped to violation kinds by case-insensitive substring
\* match: a label containing "phone" yields PHONE_DETECTED, one containing "book"
\* BOOK_DETECTED, one containing "paper" or "notebook" NOTES_DETECTED; in particular
\* a detection labelled "notebook" produces a NOTES_DETECTED event.
C11_LabelTable ==
    [][ (IsTick /\ Ran(last')) =>
          KindsOf(last'.objOut) = TableKinds(last'.predictions) ]_vars

\* C12: in one tick every qualifying object produces its own event: the number of
\* contraband events of the tick equals the number of detected objects whose label
\* matches the table, they come in detection order, and the same detections on the
\* next tick emit again.
C12_EveryObjectEmits ==
    [][ (IsTick /\ Ran(last')) =>
          LET qualifying == SelectSeq(last'.predictions, MatchesTable)
          IN /\ Len(last'.objOut) = Len(qualifying)
             /\ \A i \in 1..Len(last'.objOut) : IsContraband(last'.objOut[i])
             /\ \A i \in 1..Len(qualifying) :
                   i <= Len(last'.objOut) /\ last'.objOut[i].confidence = qualifying[i].score
             /\ (Ran(last) /\ last.predictions = last'.predictions) =>
                   last'.objOut = last.objOut ]_vars

\* Two books in one frame have given two events, on each of two consecutive ticks.
C12_Witness ==
    /\ Ran(last)
    /\ last.predictions = <<Prediction(Book, 87), Prediction(Book, 55)>>
    /\ Len(last.objOut) = 2
    /\ CountOf(events, "BOOK_DETECTED") = 4

----------------------------------------------------------------------------
(* Severity bands *)

SeverityLabels == {"Excellent", "Good", "Average", "Poor", "Critical"}

\* The label an assessment text starts with.
SeverityOf(interpretation) ==
    CASE interpretation = "Excellent - Highly trustworthy performance" -> "Excellent"
      [] interpretation = "Good - Acceptable with minor concerns"      -> "Good"
      [] interpretation = "Average - Some compliance issues detected"  -> "Average"
      [] interpretation = "Poor - Multiple policy violations"          -> "Poor"
      [] interpretation = "Critical - Severe integrity concerns"       -> "Critical"
      [] OTHER                                                         -> "unknown"

\* The bands as the specification states them.
BandRange(label) ==
    CASE label = "Excellent" -> 90..100
      [] label = "Good"      -> 75..89
      [] label = "Average"   -> 60..74
      [] label = "Poor"      -> 40..59
      [] label = "Critical"  -> 0..39
      [] OTHER               -> {}

Reported == lastCall.fn = "generatePDF"

ReportedLabel == SeverityOf(lastCall.interpretation)

\* C14: the severity label is a pure function of the score with bands >= 90
\* Excellent, >= 75 Good, >= 60 Average, >= 40 Poor, otherwise Critical; every
\* integer score in [0,100] falls in exactly one band and the boundary values 90,
\* 75, 60 and 40 belong to the upper band.
C14_SeverityBands ==
    Reported =>
        /\ lastCall.integrityScore \in 0..100
        /\ lastCall.integrityScore \in BandRange(ReportedLabel)
        /\ Cardinality({b \in SeverityLabels : lastCall.integrityScore \in BandRange(b)}) = 1
        /\ lastCall.integrityScore = 90 => ReportedLabel = "Excellent"
        /\ lastCall.integrityScore = 75 => ReportedLabel = "Good"
        /\ lastCall.integrityScore = 60 => ReportedLabel = "Average"
        /\ lastCall.integrityScore = 40 => ReportedLabel = "Poor"

\* A report on the boundary score 75 says Good.
C14_Witness ==
    /\ Reported
    /\ lastCall.integrityScore = 75
    /\ lastCall.interpretation = "Good - Acceptable with minor concerns"

\* C15 as stated: the scores 100, 80, 65, 45, 20 map to the severity labels
\* Excellent, Average, Poor, Poor, Critical respectively.
C15_Original ==
    Reported =>
        /\ lastCall.integrityScore = 100 => ReportedLabel = "Excellent"
        /\ lastCall.integrityScore = 80 => ReportedLabel = "Average"
        /\ lastCall.integrityScore = 65 => ReportedLabel = "Poor"
        /\ lastCall.integrityScore = 45 => ReportedLabel = "Poor"
        /\ lastCall.integrityScore = 20 => ReportedLabel = "Critical"

\* C15 (amended): the scores 100, 80, 65, 45, 20 map to the severity labels
\* Excellent, Good, Average, Poor, Critical respectively.
C15_ScoreSequenceLabels ==
    Reported =>
        /\ lastCall.integrityScore = 100 => ReportedLabel = "Excellent"
        /\ lastCall.integrityScore = 80 => ReportedLabel = "Good"
        /\ lastCall.integrityScore = 65 => ReportedLabel = "Average"
        /\ lastCall.integrityScore = 45 => ReportedLabel = "Poor"
        /\ lastCall.integrityScore = 20 => ReportedLabel = "Critical"

\* A report on the score 80 says Good.
C15_Witness ==
    /\ Reported
    /\ lastCall.integrityScore = 80
    /\ ReportedLabel = "Good"

----------------------------------------------------------------------------
(* Saved summary *)

ViolationKinds == {"FOCUS_LOST", "NO_FACE", "MULTIPLE_FACES", "PHONE_DETECTED",
                   "NOTES_DETECTED", "BOOK_DETECTED"}

Saved == lastCall.fn = "saveData" /\ lastCall.success

SumOfCounts(c) ==
    c.focusLostCount + c.noFaceCount + c.multipleFacesCount
        + c.phoneDetectedCount + c.notesDetectedCount + c.bookDetectedCount

\* The nearest value of [0,100] (a score, or a confidence in hundredths).
Nearest(x) == IF x < 0 THEN 0 ELSE IF x > 100 THEN 100 ELSE x

\* C16: after any sequence of recorded events, totalEvents equals the length of
\* the event log and the sum of the six per-kind counts, in the live session and in
\* the summary computed by saveData.
C16_TotalEventsIsSum ==
    /\ Len(events) = CountOf(events, "FOCUS_LOST") + CountOf(events, "NO_FACE")
                       + CountOf(events, "MULTIPLE_FACES") + CountOf(events, "PHONE_DETECTED")
                       + CountOf(events, "NOTES_DETECTED") + CountOf(events, "BOOK_DETECTED")
    /\ interview.totalEvents = SumOfCounts(interview.counts)
    /\ Saved =>
          /\ interview.totalEvents = Len(lastCall.events)
          /\ interview.counts.focusLostCount = CountOf(lastCall.events, "FOCUS_LOST")
          /\ interview.counts.noFaceCount = CountOf(lastCall.events, "NO_FACE")
          /\ interview.counts.multipleFacesCount = CountOf(lastCall.events, "MULTIPLE_FACES")
          /\ interview.counts.phoneDetectedCount = CountOf(lastCall.events, "PHONE_DETECTED")
          /\ interview.counts.notesDetectedCount = CountOf(lastCall.events, "NOTES_DETECTED")
          /\ interview.counts.bookDetectedCount = CountOf(lastCall.events, "BOOK_DETECTED")

\* A session with one FOCUS_LOST and one NOTES_DETECTED has been saved.
C16_Witness ==
    /\ Saved
    /\ lastCall.events = events
    /\ interview.totalEvents = 2
    /\ interview.counts.focusLostCount = 1
    /\ interview.counts.notesDetectedCount = 1

\* C17: whatever score and confidences are submitted to saveData, the persisted
\* score is in [0,100] and every persisted confidence is in [0,1]; out-of-range
\* values are clamped to the nearest bound and the event is still stored.
C17_SavedValuesClamped ==
    /\ interview.integrityScore \in 0..100
    /\ \A i \in 1..Len(storedEvents) : storedEvents[i].confidence \in 0..100
    /\ Saved =>
          /\ interview.integrityScore = Nearest(lastCall.integrityScore)
          /\ Len(storedEvents) = Len(lastCall.events)
          /\ \A i \in 1..Len(storedEvents) :
                /\ storedEvents[i].type = lastCall.events[i].type
                /\ storedEvents[i].confidence = Nearest(lastCall.events[i].confidence)

\* A score above 100 and confidences below 0 have been saved at the bounds.
C17_Witness ==
    /\ Saved
    /\ lastCall.integrityScore > 100
    /\ interview.integrityScore = 100
    /\ Len(storedEvents) = 2
    /\ lastCall.events[1].confidence < 0
    /\ storedEvents[1].confidence = 0

----------------------------------------------------------------------------
(* Detection loop of the room page *)

\* Every interval callback closes over recording = false, the state of the render
\* whose Start Interview button was clicked, so no callback calls runDetection.
NoDetectionCall ==
    /\ \A t \in intervals : ~t.recording
    /\ loop.calls = 0

\* C19: ending a session stops the periodic timer: after endInterview has run, no
\* interval timer created by an earlier startDetectionLoop call remains active, no
\* callback of such a timer runs any more, and so none starts a detection tick.
C19_EndStopsTimer ==
    /\ [](\A t \in intervals : t.id > loop.endMark)
    /\ [][ loop'.ends > loop.ends =>
             /\ loop'.endMark = loop.created
             /\ intervals' = {}
             /\ detectionIntervalRef' = None ]_vars
    /\ [][ loop'.fires > loop.fires => loop'.firedId > loop.endMark ]_vars

\* endInterview has run on a session whose timer had been created and had fired;
\* no timer is left.
C19_Witness ==
    /\ loop.ends = 1
    /\ loop.created = 1
    /\ loop.firedId = 1
    /\ intervals = {}
    /\ detectionIntervalRef = None
    /\ ~recording

----------------------------------------------------------------------------
(* Detector failures *)

TrackerUnchanged ==
    UNCHANGED <<lastFaceDetectedTime, lastLookingAwayTime, isLookingAway, hasNoFace>>

\* A detector threw during the call.
PerceptionFailed(l) == Ran(l) /\ (l.kind = "error" \/ ~l.objOk)

\* C21: if perception fails (throws) during a tick, that tick is a no-observation
\* tick: no tracker timing state is changed, no event is emitted in that tick, the
\* session is not aborted, and the next scheduled tick runs normally.
C21_FailedTickIsNoObservation ==
    [][ (IsTick /\ PerceptionFailed(last')) =>
          /\ TrackerUnchanged
          /\ NewEvents = <<>>
          /\ last'.emitted = <<>>
          /\ isInitialized' ]_vars

----------------------------------------------------------------------------
(* Sessions of one browser tab *)

\* In the first run of observations of a session no NO_FACE / FOCUS_LOST is
\* emitted before its threshold has passed within that run.
FirstTimedEventWaits ==
    run.first =>
        /\ CountOf(last.faceOut, "NO_FACE") > 0 =>
              (run.kind = "none" /\ now - run.start > NO_FACE_THRESHOLD)
        /\ CountOf(last.faceOut, "FOCUS_LOST") > 0 =>
              (run.kind = "offcenter" /\ now - run.start > FOCUS_LOST_THRESHOLD)

\* C22: every session starts with fresh, session-owned state: score 100, empty
\* log, both tracker conditions inactive; nothing that happened in an earlier
\* session (also after destroy() and a later initialize()) influences when the
\* first FOCUS_LOST or NO_FACE of a new session is emitted.
C22_FreshSession ==
    /\ [][ loop'.mounts > loop.mounts =>
             /\ integrityScore' = 100
             /\ events' = <<>>
             /\ ~isLookingAway'
             /\ ~hasNoFace' ]_vars
    /\ []FirstTimedEventWaits

----------------------------------------------------------------------------
(* Interrupted conditions *)

\* C23: when the previous tick had zero or multiple faces and the current tick
\* has exactly one face, focus-deviation tracking is reset before deviation is
\* evaluated: no FOCUS_LOST is emitted on that tick, however long ago looking-away
\* was first observed, and an off-center face starts its countdown at that tick.
C23_SingleFaceAfterGapResets ==
    [][ (IsTick /\ last.kind \in {"none", "multiple"}
                /\ last'.kind \in {"centered", "offcenter"}) =>
          /\ CountOf(last'.faceOut, "FOCUS_LOST") = 0
          /\ last'.kind = "offcenter" => lastLookingAwayTime' = now' ]_vars

\* C24: in every reachable state, if a tracker's condition flag is true
\* (hasNoFace / isLookingAway) then the adverse condition has been observed on
\* every tick since that tracker's timer was last reset: the flag is not true
\* after a tick that observed something else, and a zero-face tick that follows a
\* multiple-faces tick starts the countdown anew, so that NO_FACE is not emitted
\* using elapsed time from before the interruption.  (A tick whose face detector
\* failed observed nothing and is not held against the flag.)
C24_ConditionActiveMeansContinuous ==
    /\ [](hasNoFace => last.kind \notin {"centered", "offcenter", "multiple"})
    /\ [](isLookingAway => last.kind \notin {"centered", "none", "multiple"})
    /\ [][ (IsTick /\ last.kind = "multiple" /\ last'.kind = "none") =>
             /\ lastFaceDetectedTime' = now'
             /\ CountOf(last'.faceOut, "NO_FACE") = 0 ]_vars

----------------------------------------------------------------------------
(* Order of the events of one tick *)

\* C25: within one tick the events are delivered in the order: the focus/presence
\* event (if any) first, then the contraband events in detection order,
\* regardless of which of the face detector and the object detector finishes
\* first.
C25_FaceEventFirst ==
    [][ (IsTick /\ Ran(last')) =>
          /\ last'.emitted = last'.faceOut \o last'.objOut
          /\ NewEvents = last'.faceOut \o last'.objOut ]_vars

----------------------------------------------------------------------------
(* Saving again *)

----------------------------------------------------------------------------
(* Periodic invocation *)

\* C27: for the lifetime of an active session the detection tick is invoked
\* periodically: once the interview has been started with detection initialized,
\* every timer fire that occurs while the session is recording calls runDetection.
C27_TimerFireCallsRunDetection ==
    [][ (loop'.fires > loop.fires /\ mounted /\ recording) =>
          loop'.calls = loop.calls + 1 ]_vars

----------------------------------------------------------------------------
(* Snapshots of the session *)

\* The score that belongs to an event list.
ScoreOfLog(evs) == Max(0, 100 - TableSum(evs))

\* The step is a run of the 2 s timeout of endInterview.
SaveStep == Len(saveTimeouts') < Len(saveTimeouts)

C29_SaveHandsOverCurrentState ==
    [][ SaveStep =>
          /\ lastCall'.events = events
          /\ lastCall'.integrityScore = integrityScore
          /\ Len(storedEvents') = Len(events)
          /\ interview'.integrityScore = integrityScore ]_vars

----------------------------------------------------------------------------
(* Stored rows and the stored total *)

\* C30: in every reachable storage state the number of stored detection events
\* of an interview equals that interview's stored totalEvents, also when saveData
\* fails between its update, delete and insert steps and when two saveData calls
\* for the same room interleave.
C30_StoredCountIsTotal == Len(storedEvents) = interview.totalEvents

\* The same, for the states in which no saveData call is in progress.
StoredCountIsTotalAtRest == pending = {} => Len(storedEvents) = interview.totalEvents

====
